---- MODULE Spec2Model ----
(***************************************************************************)
(* Rent-reclaim engine of the Kora reclaim bot: the State Store            *)
(* (database.ts), the eligibility policy and reclaim executor (reclaim.ts),*)
(* the reconciliation engine (monitor.ts), manual tracking (discovery.ts)  *)
(* and the ledger gateway (solana.ts).  Every handler is cut at its awaits.*)
(* The ledger belongs to others: a read of it returns any account state,   *)
(* and two reads of one address need not agree.                            *)
(***************************************************************************)
EXTENDS Integers, Sequences, FiniteSets, TLC

\* ---------------------------------------------------------------- bounds
MaxNow == 2          \* the clock stops after MaxNow ticks
MaxLamports == 2     \* on-chain balances range over 0..MaxLamports
MaxLog == 2          \* reclaim attempts start only while the log is shorter
MaxTx == 2           \* a history holds at most MaxTx transactions

\* ------------------------------------------------------ program constants
DayTicks == 2             \* clock ticks per day (1000 * 60 * 60 * 24 ms)
minDormancyDays == 1      \* config.minDormancyDays
minReclaimLamports == 2   \* config.minReclaimLamports

Addrs == {"a1", "a2"}
Tasks == {"t1", "t2"}
Main == "t1"
One == {"a1"}
Owners == {"system", "token", "other"}
Null == -1

NoRow == [status |-> "none"]
NoRet == [op |-> "none"]
Idle == [op |-> "idle", pc |-> "idle"]
Gone == [exists |-> FALSE, lamports |-> 0, owner |-> "system"]

VARIABLES
  tracked_accounts,      \* table tracked_accounts: address -> row or NoRow
  reclaim_transactions,  \* table reclaim_transactions, in insertion order
  whitelist,             \* table whitelist
  blacklist,             \* table blacklist
  now,                   \* the clock, in ticks
  task,                  \* per task: the handler in flight and its locals
  ret,                   \* per task: what a handler returned in the step just taken
  service                \* KoraReclaimService: isRunning and its scheduled tasks

vars == <<tracked_accounts, reclaim_transactions, whitelist, blacklist,
          now, task, ret, service>>

db_vars == <<tracked_accounts, reclaim_transactions, whitelist, blacklist>>
\* what no handler of the core modules writes
env_vars == <<now, service>>

\* ------------------------------------------------------------ State Store
updateAccountStatus(db, a, s, closedAt) ==
  IF db[a] = NoRow THEN db
  ELSE [db EXCEPT ![a].status = s,
                  ![a].closed_at = IF closedAt # Null THEN closedAt ELSE @]

updateAccountRent(db, a, r) ==
  IF db[a] = NoRow THEN db ELSE [db EXCEPT ![a].rent_lamports = r]

upsertAccount(db, a, row) ==
  IF db[a] = NoRow THEN [db EXCEPT ![a] = row]
  ELSE [db EXCEPT ![a].rent_lamports = row.rent_lamports,
                  ![a].status = row.status,
                  ![a].closed_at = IF row.closed_at # Null
                                   THEN row.closed_at ELSE @]

recordReclaimTransaction(log, a, sig, ok, err) ==
  Append(log, [account_pubkey |-> a, tx_signature |-> sig, success |-> ok,
               error_message |-> err])

\* the row discovery and addAccountManually build from a fresh ledger read
NewRow(info, t) ==
  [status |-> IF info.exists THEN "active" ELSE "closed",
   rent_lamports |-> info.lamports,
   closed_at |-> IF info.exists THEN Null ELSE t]

\* --------------------------------------------------------- Ledger Gateway
\* what getAccountInfo can return: the fields of a missing account default
Infos == {Gone} \cup [exists : {TRUE}, lamports : 0..MaxLamports, owner : Owners]

\* -------------------------------------------------------------- the clock
Tick ==
  /\ now < MaxNow
  /\ now' = now + 1
  /\ ret' = [t \in Tasks |-> NoRet]
  /\ UNCHANGED <<db_vars, task, service>>

\* ------------------------------------------------ handler bookkeeping
\* task t awaits as rec / task t's handler returns r
Begin(t, rec) ==
  /\ task' = [task EXCEPT ![t] = rec]
  /\ ret' = [u \in Tasks |-> NoRet]

Return(t, r) ==
  /\ task' = [task EXCEPT ![t] = Idle]
  /\ ret' = [u \in Tasks |-> IF u = t THEN r ELSE NoRet]

\* ------------------------------------------------- allow-list / deny-list
addToWhitelist(t, a) ==
  /\ task[t] = Idle
  /\ whitelist' = whitelist \cup {a}
  /\ tracked_accounts' = updateAccountStatus(tracked_accounts, a, "whitelisted", Null)
  /\ Return(t, [op |-> "addToWhitelist", addr |-> a])
  /\ UNCHANGED <<reclaim_transactions, blacklist, env_vars>>

removeFromWhitelist(t, a) ==
  /\ task[t] = Idle
  /\ whitelist' = whitelist \ {a}
  /\ Return(t, [op |-> "removeFromWhitelist", addr |-> a])
  /\ UNCHANGED <<tracked_accounts, reclaim_transactions, blacklist, env_vars>>

addToBlacklist(t, a) ==
  /\ task[t] = Idle
  /\ blacklist' = blacklist \cup {a}
  /\ Return(t, [op |-> "addToBlacklist", addr |-> a])
  /\ UNCHANGED <<tracked_accounts, reclaim_transactions, whitelist, env_vars>>

\* ----------------------------------------------------- addAccountManually
addAccountManually(t, a) ==
  /\ task[t] = Idle
  /\ IF tracked_accounts[a] # NoRow
     THEN Return(t, [op |-> "addAccountManually", addr |-> a, added |-> FALSE])
     ELSE Begin(t, [op |-> "addAccountManually", pc |-> "read", addr |-> a])
  /\ UNCHANGED <<db_vars, env_vars>>

addAccountManuallyRead(t) ==
  /\ task[t].op = "addAccountManually"
  /\ task[t].pc = "read"
  /\ LET a == task[t].addr IN
     \E threw \in BOOLEAN, info \in Infos:
       IF threw
       THEN /\ Return(t, [op |-> "addAccountManually", addr |-> a, added |-> FALSE])
            /\ UNCHANGED tracked_accounts
       ELSE /\ tracked_accounts' =
                 upsertAccount(tracked_accounts, a, NewRow(info, now))
            /\ Return(t, [op |-> "addAccountManually", addr |-> a, added |-> TRUE])
  /\ UNCHANGED <<reclaim_transactions, whitelist, blacklist, env_vars>>

\* ------------------------------------------------- discoverSponsoredAccounts
\* A transaction of the sponsor's history, as findCreatedAccounts sees it:
\* the addresses it created, in order.  A history is the list of signatures
\* getSponsoredAccountSignatures returns.
Txs == {<<"a1">>, <<"a2", "a1">>}

Histories == UNION {[1..n -> Txs] : n \in 1..MaxTx}

Candidates(hist) == UNION {{hist[i][j] : j \in DOMAIN hist[i]} : i \in DOMAIN hist}

NoPrev == [set |-> FALSE]

EmptyResult ==
  [totalFound |-> 0, newAccounts |-> 0, existingAccounts |-> 0, errors |-> 0]

DiscoveryRet(hist, res) ==
  [op |-> "discoverSponsoredAccounts", hist |-> hist,
   totalFound |-> res.totalFound, newAccounts |-> res.newAccounts,
   existingAccounts |-> res.existingAccounts, errors |-> res.errors]

\* variant of AlreadyTracked that never finds the row (C14)
AlreadyTracked_Never(db, a) == FALSE

\* getAccount(accountPubkey) finds a row
AlreadyTracked(db, a) == db[a] # NoRow

\* variant of Scan without the discoveredPubkeys guard (C35)
RECURSIVE Scan_NoDedup(_, _, _, _)
Scan_NoDedup(cands, discovered, res, db) ==
  IF cands = <<>> THEN [kind |-> "done", discovered |-> discovered, res |-> res]
  ELSE LET a == Head(cands) IN
       IF AlreadyTracked(db, a)
       THEN Scan_NoDedup(Tail(cands), discovered \cup {a},
                         [res EXCEPT !.existingAccounts = @ + 1], db)
       ELSE [kind |-> "read", addr |-> a, cands |-> Tail(cands),
             discovered |-> discovered \cup {a}, res |-> res]

\* The loop over createdAccounts from cands on, up to the next await: an
\* address seen earlier in the run is skipped, a tracked one is counted as
\* existing, the first untracked one needs a ledger read.
RECURSIVE Scan(_, _, _, _)
Scan(cands, discovered, res, db) ==
  IF cands = <<>> THEN [kind |-> "done", discovered |-> discovered, res |-> res]
  ELSE LET a == Head(cands) IN
       IF a \in discovered THEN Scan(Tail(cands), discovered, res, db)
       ELSE IF AlreadyTracked(db, a)
       THEN Scan(Tail(cands), discovered \cup {a},
                 [res EXCEPT !.existingAccounts = @ + 1], db)
       ELSE [kind |-> "read", addr |-> a, cands |-> Tail(cands),
             discovered |-> discovered \cup {a}, res |-> res]

\* the run goes on with transaction i: it awaits its fetch, or it is over
NextTx(t, i, discovered, res) ==
  IF i > Len(task[t].hist)
  THEN Return(t, DiscoveryRet(task[t].hist,
         [res EXCEPT !.totalFound = res.newAccounts + res.existingAccounts]))
  ELSE Begin(t, [task[t] EXCEPT !.pc = "tx", !.i = i, !.cands = <<>>,
                                !.addr = "none",
                                !.discovered = discovered, !.res = res])

\* the run goes on with the candidates cands of transaction i over db
ScanOn(t, cands, discovered, res, db) ==
  LET sc == Scan(cands, discovered, res, db) IN
    IF sc.kind = "read"
    THEN Begin(t, [task[t] EXCEPT !.pc = "account", !.addr = sc.addr,
                                  !.cands = sc.cands,
                                  !.discovered = sc.discovered, !.res = sc.res])
    ELSE NextTx(t, task[t].i + 1, sc.discovered, sc.res)

\* prev remembers, for a run started right after another run returned, that
\* run's history, whether it reported no error, and the table as it left it
discoverSponsoredAccounts(t, hist, configured) ==
  /\ task[t] = Idle
  /\ IF ~configured
     THEN Return(t, DiscoveryRet(hist, [EmptyResult EXCEPT !.errors = 1]))
     ELSE Begin(t, [op |-> "discover", pc |-> "signatures", hist |-> hist,
                    i |-> 0, cands |-> <<>>, addr |-> "none",
                    discovered |-> {}, res |-> EmptyResult,
                    prev |-> IF ret[t].op = "discoverSponsoredAccounts"
                             THEN [set |-> TRUE, hist |-> ret[t].hist,
                                   clean |-> ret[t].errors = 0,
                                   db |-> tracked_accounts]
                             ELSE NoPrev])
  /\ UNCHANGED <<db_vars, env_vars>>

\* getSponsoredAccountSignatures resolves
discoverSignaturesRead(t) ==
  /\ task[t].op = "discover"
  /\ task[t].pc = "signatures"
  /\ \E threw \in BOOLEAN :
       IF threw
       THEN Return(t, DiscoveryRet(task[t].hist, [EmptyResult EXCEPT !.errors = 1]))
       ELSE NextTx(t, 1, {}, EmptyResult)
  /\ UNCHANGED <<db_vars, env_vars>>

\* getParsedTransaction of transaction i resolves (after the delay before it)
discoverTxRead(t) ==
  /\ task[t].op = "discover"
  /\ task[t].pc = "tx"
  /\ \E threw \in BOOLEAN :
       IF threw
       THEN NextTx(t, task[t].i + 1, task[t].discovered,
                   [task[t].res EXCEPT !.errors = @ + 1])
       ELSE ScanOn(t, task[t].hist[task[t].i], task[t].discovered, task[t].res,
                   tracked_accounts)
  /\ UNCHANGED <<db_vars, env_vars>>

\* getAccountInfo of a new candidate resolves (after the delay before it)
discoverAccountRead(t) ==
  /\ task[t].op = "discover"
  /\ task[t].pc = "account"
  /\ LET a == task[t].addr IN
     \E threw \in BOOLEAN, info \in Infos :
       IF threw
       THEN /\ ScanOn(t, task[t].cands, task[t].discovered,
                      [task[t].res EXCEPT !.errors = @ + 1], tracked_accounts)
            /\ UNCHANGED tracked_accounts
       ELSE LET db == upsertAccount(tracked_accounts, a, NewRow(info, now)) IN
            /\ tracked_accounts' = db
            /\ ScanOn(t, task[t].cands, task[t].discovered,
                      [task[t].res EXCEPT !.newAccounts = @ + 1], db)
  /\ UNCHANGED <<reclaim_transactions, whitelist, blacklist, env_vars>>

\* ------------------------------------------------------- Eligibility Policy
\* variant of EligibilityPrefix that skips the isWhitelisted check (C5)
EligibilityPrefix_NoWhitelist(row, a, wl, bl) ==
  IF row = NoRow THEN "not_tracked"
  ELSE IF row.status = "reclaimed" THEN "already_reclaimed"
  ELSE IF a \in bl THEN "blacklisted"
  ELSE "ok"

\* variant of EligibilityPrefix that skips the isBlacklisted check (C23)
EligibilityPrefix_NoBlacklist(row, a, wl, bl) ==
  IF row = NoRow THEN "not_tracked"
  ELSE IF row.status = "reclaimed" THEN "already_reclaimed"
  ELSE IF a \in wl THEN "whitelisted"
  ELSE "ok"

\* checkEligibility up to its ledger read: the first failing check, or "ok"
EligibilityPrefix(row, a, wl, bl) ==
  IF row = NoRow THEN "not_tracked"
  ELSE IF row.status = "reclaimed" THEN "already_reclaimed"
  ELSE IF a \in wl THEN "whitelisted"
  ELSE IF a \in bl THEN "blacklisted"
  ELSE "ok"

\* the closure time the dormancy check reads: the copy of the row fetched
\* before the ledger read (updateAccountStatus does not refresh it)
DormancyClosedAt(account, corrected, t) == account.closed_at

daysSinceClosed(closedAt, t) == (t - closedAt) \div DayTicks

\* checkEligibility after its ledger read, on the copy `account` of the row
EligibilityOnChain(account, info, t) ==
  LET corrected == ~info.exists /\ account.status # "closed"
      closedAt == DormancyClosedAt(account, corrected, t)
      reason ==
        IF info.exists /\ info.lamports > 0 /\ info.lamports >= minReclaimLamports
          THEN "not_closed"
        ELSE IF ~info.exists /\ account.rent_lamports = 0 THEN "no_rent"
        ELSE IF closedAt # Null /\ daysSinceClosed(closedAt, t) < minDormancyDays
          THEN "dormancy"
        ELSE IF account.rent_lamports < minReclaimLamports THEN "below_min"
        ELSE "eligible"
  IN [eligible |-> reason = "eligible",
      reasons |-> <<reason>>,
      warnings |-> (IF info.exists /\ info.lamports > 0 THEN <<"has_lamports">> ELSE <<>>)
                   \o (IF corrected THEN <<"status_updated">> ELSE <<>>),
      corrected |-> corrected,
      rent_lamports |-> account.rent_lamports]

\* variant of EligibilityWrite that also resets the stored rent (C8)
EligibilityWrite_ZeroRent(db, a, e, t) ==
  IF e.corrected
  THEN updateAccountRent(updateAccountStatus(db, a, "closed", t), a, 0)
  ELSE updateAccountRent(db, a, 0)

\* the State Store write checkEligibility makes on its way
EligibilityWrite(db, a, e, t) ==
  IF e.corrected THEN updateAccountStatus(db, a, "closed", t) ELSE db

EligibilityRet(a, ok, reasons, warnings) ==
  [op |-> "checkEligibility", addr |-> a, eligible |-> ok,
   reasons |-> reasons, warnings |-> warnings]

\* what the eligibility policy uses of a ledger read
Seen(info) == [exists |-> info.exists, lamports |-> info.lamports]

\* the result together with the ledger snapshot the evaluation read
EligibilityRetSeen(a, e, info) ==
  [op |-> "checkEligibility", addr |-> a, eligible |-> e.eligible,
   reasons |-> e.reasons, warnings |-> e.warnings, seen |-> Seen(info)]

checkEligibility(t, a) ==
  /\ task[t] = Idle
  /\ LET pre == EligibilityPrefix(tracked_accounts[a], a, whitelist, blacklist) IN
       IF pre # "ok"
       THEN Return(t, EligibilityRet(a, FALSE, <<pre>>, <<>>))
       ELSE Begin(t, [op |-> "checkEligibility", pc |-> "elig_read", addr |-> a,
                      account |-> tracked_accounts[a]])
  /\ UNCHANGED <<db_vars, env_vars>>

checkEligibilityRead(t) ==
  /\ task[t].op = "checkEligibility"
  /\ task[t].pc = "elig_read"
  /\ LET a == task[t].addr IN
     \E threw \in BOOLEAN, info \in Infos:
       IF threw
       THEN /\ Return(t, [op |-> "checkEligibility", addr |-> a, threw |-> TRUE])
            /\ UNCHANGED tracked_accounts
       ELSE LET e == EligibilityOnChain(task[t].account, info, now) IN
            /\ tracked_accounts' = EligibilityWrite(tracked_accounts, a, e, now)
            /\ Return(t, EligibilityRetSeen(a, e, info))
  /\ UNCHANGED <<reclaim_transactions, whitelist, blacklist, env_vars>>

\* ------------------------------------------------------- Reclaim Executor
NoBatch == [active |-> FALSE]

ReclaimRet(a, ok, err, dry, amount) ==
  [op |-> "reclaimSingleAccount", addr |-> a, success |-> ok, error |-> err,
   dryRun |-> dry, lamportsReclaimed |-> amount]

\* the locals of reclaimSingleAccount as it awaits checkEligibility's read;
\* seen keeps the read the policy judged on, lamports and owner the read
\* closeAccountAndReclaimRent acts on
ReclaimTask(a, dry, account, batch) ==
  [op |-> "reclaim", pc |-> "elig_read", addr |-> a, dryRun |-> dry,
   account |-> account, seen |-> Seen(Gone), lamports |-> 0, owner |-> "none",
   batch |-> batch]

Failure(a, err, dry) == ReclaimRet(a, FALSE, err, dry, 0)

\* the loop body of reclaimAllEligible after one account's result
Tally(sum, r) ==
  IF r.success
  THEN [sum EXCEPT !.totalSuccessful = @ + 1,
                   !.totalLamportsReclaimed = @ + r.lamportsReclaimed,
                   !.results = Append(@, r)]
  ELSE [sum EXCEPT !.totalFailed = @ + 1, !.results = Append(@, r)]

BatchRet(sum) == [op |-> "reclaimAllEligible", summary |-> sum]

\* variant of Advance that takes the batch's eligible set as final and does
\* not re-evaluate the policy at an account's turn (C38)
Advance_NoRecheck(queue, sum, dry, db, wl, bl) ==
  IF queue = <<>> THEN [kind |-> "done", sum |-> sum]
  ELSE [kind |-> "read", addr |-> Head(queue), queue |-> Tail(queue),
        sum |-> [sum EXCEPT !.totalAttempted = @ + 1]]

\* The for-loop of reclaimAllEligible from its next account on, up to the
\* next await: an account whose eligibility fails before the ledger read is
\* tallied at once; live mode then sleeps, dry-run goes on to the next one.
RECURSIVE Advance(_, _, _, _, _, _)
Advance(queue, sum, dry, db, wl, bl) ==
  IF queue = <<>> THEN [kind |-> "done", sum |-> sum]
  ELSE LET a == Head(queue)
           pre == EligibilityPrefix(db[a], a, wl, bl)
           sum1 == [sum EXCEPT !.totalAttempted = @ + 1]
       IN IF pre = "ok"
          THEN [kind |-> "read", addr |-> a, queue |-> Tail(queue), sum |-> sum1]
          ELSE IF dry
          THEN Advance(Tail(queue), Tally(sum1, Failure(a, pre, dry)), dry, db, wl, bl)
          ELSE [kind |-> "delay", queue |-> Tail(queue),
                sum |-> Tally(sum1, Failure(a, pre, dry))]

\* task t goes on with the batch (queue, sum) over the State Store db
Continue(t, queue, sum, dry, db) ==
  LET adv == Advance(queue, sum, dry, db, whitelist, blacklist) IN
    IF adv.kind = "done" THEN Return(t, BatchRet(adv.sum))
    ELSE IF adv.kind = "delay"
    THEN Begin(t, [op |-> "reclaim", pc |-> "delay", dryRun |-> dry,
                   batch |-> [active |-> TRUE, queue |-> adv.queue, sum |-> adv.sum]])
    ELSE Begin(t, ReclaimTask(adv.addr, dry, db[adv.addr],
                   [active |-> TRUE, queue |-> adv.queue, sum |-> adv.sum]))

\* reclaimSingleAccount returns r: to its caller, or to the batch loop
Finish(t, r, db) ==
  LET b == task[t].batch  dry == task[t].dryRun IN
    IF ~b.active THEN Return(t, r)
    ELSE IF dry THEN Continue(t, b.queue, Tally(b.sum, r), dry, db)
    ELSE Begin(t, [op |-> "reclaim", pc |-> "delay", dryRun |-> dry,
                   batch |-> [b EXCEPT !.sum = Tally(@, r)]])

\* reclaimSingleAccount rejects (its eligibility read threw): the caller
\* sees the exception; reclaimAllEligible catches it and returns the summary
Reject(t) ==
  LET b == task[t].batch IN
    IF ~b.active
    THEN Return(t, [op |-> "reclaimSingleAccount", addr |-> task[t].addr, threw |-> TRUE])
    ELSE Return(t, BatchRet(b.sum))

reclaimSingleAccount(t, a, dry) ==
  /\ task[t] = Idle
  /\ Len(reclaim_transactions) < MaxLog
  /\ LET pre == EligibilityPrefix(tracked_accounts[a], a, whitelist, blacklist) IN
       IF pre # "ok"
       THEN Return(t, Failure(a, pre, dry))
       ELSE Begin(t, ReclaimTask(a, dry, tracked_accounts[a], NoBatch))
  /\ UNCHANGED <<db_vars, env_vars>>

\* checkEligibility's ledger read resolves inside reclaimSingleAccount
reclaimEligibilityRead(t) ==
  /\ task[t].op = "reclaim"
  /\ task[t].pc = "elig_read"
  /\ LET a == task[t].addr IN
     \E threw \in BOOLEAN, info \in Infos:
       IF threw
       THEN /\ Reject(t)
            /\ UNCHANGED tracked_accounts
       ELSE LET e == EligibilityOnChain(task[t].account, info, now)
                db == EligibilityWrite(tracked_accounts, a, e, now) IN
            /\ tracked_accounts' = db
            /\ IF ~e.eligible
               THEN Finish(t, Failure(a, e.reasons[1], task[t].dryRun), db)
               ELSE Begin(t, [task[t] EXCEPT !.pc = "pre_read", !.seen = Seen(info)])
  /\ UNCHANGED <<reclaim_transactions, whitelist, blacklist, env_vars>>

\* the balance re-read before acting
lamportsToReclaim(info, account) ==
  IF info.exists THEN info.lamports ELSE account.rent_lamports

reclaimPreRead(t) ==
  /\ task[t].op = "reclaim"
  /\ task[t].pc = "pre_read"
  /\ LET a == task[t].addr  dry == task[t].dryRun IN
     \E threw \in BOOLEAN, info \in Infos:
       IF threw
       THEN Finish(t, Failure(a, "rpc_error", dry), tracked_accounts)
       ELSE IF lamportsToReclaim(info, task[t].account) = 0
       THEN Finish(t, Failure(a, "no_lamports", dry), tracked_accounts)
       ELSE Begin(t, [task[t] EXCEPT !.pc = "close_read"])
  /\ UNCHANGED <<db_vars, env_vars>>

\* variant of closeAccountAndReclaimRent that transfers whatever the owner (C7)
closeAccountAndReclaimRent_AnyOwner(info, dry) ==
  IF ~info.exists THEN "not_exist"
  ELSE IF dry THEN "dry_run"
  ELSE "submit"

\* closeAccountAndReclaimRent after its ledger read: what it does next
closeAccountAndReclaimRent(info, dry) ==
  IF ~info.exists THEN "not_exist"
  ELSE IF dry THEN "dry_run"
  ELSE IF info.owner = "system" THEN "submit"
  ELSE "manual_intervention"

\* variant of ReclaimedWrite that forgets updateAccountRent (C2)
ReclaimedWrite_KeepsRent(db, a) ==
  updateAccountStatus(db, a, "reclaimed", Null)

\* the State Store writes that make an account Reclaimed
ReclaimedWrite(db, a) ==
  updateAccountRent(updateAccountStatus(db, a, "reclaimed", Null), a, 0)

\* variant of SuccessWrite that ignores the dry-run flag (C10)
SuccessWrite_IgnoresDryRun(db, a, dry) == ReclaimedWrite(db, a)

\* the State Store writes after a success: none in dry-run
SuccessWrite(db, a, dry) == IF dry THEN db ELSE ReclaimedWrite(db, a)

reclaimCloseRead(t) ==
  /\ task[t].op = "reclaim"
  /\ task[t].pc = "close_read"
  /\ LET a == task[t].addr  dry == task[t].dryRun IN
     \E threw \in BOOLEAN, info \in Infos:
       IF threw
       THEN /\ Finish(t, Failure(a, "rpc_error", dry), tracked_accounts)
            /\ UNCHANGED <<tracked_accounts, reclaim_transactions>>
       ELSE LET d == closeAccountAndReclaimRent(info, dry) IN
            IF d = "submit"
            THEN /\ Begin(t, [task[t] EXCEPT !.pc = "submit",
                                              !.lamports = info.lamports,
                                              !.owner = info.owner])
                 /\ UNCHANGED <<tracked_accounts, reclaim_transactions>>
            ELSE IF d = "dry_run"
            THEN LET db == SuccessWrite(tracked_accounts, a, dry) IN
                 /\ reclaim_transactions' = recordReclaimTransaction(
                      reclaim_transactions, a, "dry-run-signature", TRUE, "")
                 /\ tracked_accounts' = db
                 /\ Finish(t, ReclaimRet(a, TRUE, "", dry, info.lamports), db)
            ELSE /\ reclaim_transactions' = recordReclaimTransaction(
                      reclaim_transactions, a, "failed", FALSE, d)
                 /\ Finish(t, Failure(a, d, dry), tracked_accounts)
                 /\ UNCHANGED tracked_accounts
  /\ UNCHANGED <<whitelist, blacklist, env_vars>>

\* sendAndConfirmTransaction resolves: confirmed, or it throws
reclaimSubmit(t) ==
  /\ task[t].op = "reclaim"
  /\ task[t].pc = "submit"
  /\ LET a == task[t].addr  dry == task[t].dryRun IN
     \/ LET db == SuccessWrite(tracked_accounts, a, dry) IN
        /\ reclaim_transactions' = recordReclaimTransaction(
             reclaim_transactions, a, "tx", TRUE, "")
        /\ tracked_accounts' = db
        /\ Finish(t, ReclaimRet(a, TRUE, "", dry, task[t].lamports), db)
     \/ /\ reclaim_transactions' = recordReclaimTransaction(
             reclaim_transactions, a, "failed", FALSE, "submit_failed")
        /\ Finish(t, Failure(a, "submit_failed", dry), tracked_accounts)
        /\ UNCHANGED tracked_accounts
  /\ UNCHANGED <<whitelist, blacklist, env_vars>>

\* getEligibleAccounts: the SQL filter of the batch
getEligibleAccounts(db, wl, bl, t) ==
  {a \in Addrs : /\ db[a] # NoRow
                 /\ db[a].status = "closed"
                 /\ db[a].closed_at # Null
                 /\ db[a].closed_at <= t - minDormancyDays * DayTicks
                 /\ db[a].rent_lamports >= minReclaimLamports
                 /\ a \notin wl
                 /\ a \notin bl}

\* the rows of a result set without ORDER BY come in any order
Orders(S) == {q \in UNION {[1..n -> S] : n \in {Cardinality(S)}} :
                \A i, j \in DOMAIN q : i # j => q[i] # q[j]}

EmptySummary(n) ==
  [totalEligible |-> n, totalAttempted |-> 0, totalSuccessful |-> 0,
   totalFailed |-> 0, totalLamportsReclaimed |-> 0, results |-> <<>>]

reclaimAllEligible(t, dry) ==
  /\ task[t] = Idle
  /\ LET eligible == getEligibleAccounts(tracked_accounts, whitelist, blacklist, now) IN
     /\ Len(reclaim_transactions) + Cardinality(eligible) <= MaxLog
     /\ \E q \in Orders(eligible):
          Continue(t, q, EmptySummary(Cardinality(eligible)), dry, tracked_accounts)
  /\ UNCHANGED <<db_vars, env_vars>>

\* the 500 ms sleep between two submissions of a live batch is over
reclaimBatchDelay(t) ==
  /\ task[t].op = "reclaim"
  /\ task[t].pc = "delay"
  /\ Continue(t, task[t].batch.queue, task[t].batch.sum, task[t].dryRun, tracked_accounts)
  /\ UNCHANGED <<db_vars, env_vars>>

\* --------------------------------------------------- Reconciliation Engine
NoChange == [changed |-> FALSE]

StatusChange(tracked, s, r) ==
  [changed |-> TRUE, previousStatus |-> tracked.status, newStatus |-> s,
   previousRent |-> tracked.rent_lamports, newRent |-> r]

\* variant of detectStatusChange whose drain rule compares with the whole
\* stored balance instead of a tenth of it (C15)
detectStatusChange_AnyDrop(tracked, onChain) ==
  IF tracked.status \in {"reclaimed", "whitelisted"} THEN NoChange
  ELSE IF ~onChain.exists /\ tracked.status # "closed"
    THEN StatusChange(tracked, "closed", 0)
  ELSE IF onChain.exists /\ tracked.status = "closed"
    THEN StatusChange(tracked, "active", onChain.lamports)
  ELSE IF onChain.exists /\ tracked.status = "active"
          /\ onChain.lamports < tracked.rent_lamports
    THEN StatusChange(tracked, "inactive", onChain.lamports)
  ELSE NoChange

detectStatusChange(tracked, onChain) ==
  IF tracked.status \in {"reclaimed", "whitelisted"} THEN NoChange
  ELSE IF ~onChain.exists /\ tracked.status # "closed"
    THEN StatusChange(tracked, "closed", 0)
  ELSE IF onChain.exists /\ tracked.status = "closed"
    THEN StatusChange(tracked, "active", onChain.lamports)
  ELSE IF onChain.exists /\ tracked.status = "active"
          /\ 10 * onChain.lamports < tracked.rent_lamports
    THEN StatusChange(tracked, "inactive", onChain.lamports)
  ELSE NoChange

\* variant of ApplyChange that stamps no closing time (C16)
ApplyChange_NoClosedAt(db, a, c, t) ==
  LET db1 == updateAccountStatus(db, a, c.newStatus, Null)
  IN IF c.newRent # c.previousRent THEN updateAccountRent(db1, a, c.newRent) ELSE db1

\* the writes both checkAllAccounts and checkSingleAccount make for a change
ApplyChange(db, a, c, t) ==
  LET db1 == updateAccountStatus(db, a, c.newStatus,
                                 IF c.newStatus = "closed" THEN t ELSE Null)
  IN IF c.newRent # c.previousRent THEN updateAccountRent(db1, a, c.newRent) ELSE db1

\* one turn of the loop of checkAllAccounts
CheckOne(db, a, tracked, onChain, t) ==
  LET c == detectStatusChange(tracked, onChain) IN
    IF c.changed THEN ApplyChange(db, a, c, t)
    ELSE IF onChain.lamports # tracked.rent_lamports
    THEN updateAccountRent(db, a, onChain.lamports)
    ELSE db

\* variant of accountsToCheck that polls every tracked account (C33)
accountsToCheck_AnyStatus(db) == {a \in Addrs : db[a] # NoRow}

\* the accounts a pass polls: those stored as Active or Inactive
accountsToCheck(db) == {a \in Addrs : db[a].status \in {"active", "inactive"}}

checkAllAccounts(t) ==
  /\ task[t] = Idle
  /\ LET S == accountsToCheck(tracked_accounts) IN
       IF S = {}
       THEN Return(t, [op |-> "checkAllAccounts", totalChecked |-> 0,
                       statusChanges |-> {}, errors |-> 0])
       ELSE Begin(t, [op |-> "checkAllAccounts", pc |-> "batch_read",
                      accountsToCheck |-> [a \in S |-> tracked_accounts[a]]])
  /\ UNCHANGED <<db_vars, env_vars>>

\* getMultipleAccountsInfo resolves and the loop runs without another await
checkAllAccountsRead(t) ==
  /\ task[t].op = "checkAllAccounts"
  /\ task[t].pc = "batch_read"
  /\ LET snap == task[t].accountsToCheck
         S == DOMAIN snap IN
     \E threw \in BOOLEAN, infos \in [S -> Infos]:
       IF threw
       THEN /\ Return(t, [op |-> "checkAllAccounts", totalChecked |-> 0,
                          statusChanges |-> {}, errors |-> 1])
            /\ UNCHANGED tracked_accounts
       ELSE /\ tracked_accounts' =
                 [a \in Addrs |->
                    IF a \in S
                    THEN CheckOne(tracked_accounts, a, snap[a], infos[a], now)[a]
                    ELSE tracked_accounts[a]]
            /\ Return(t, [op |-> "checkAllAccounts", totalChecked |-> Cardinality(S),
                 statusChanges |->
                   {[pubkey |-> a, change |-> detectStatusChange(snap[a], infos[a])] :
                      a \in {b \in S : detectStatusChange(snap[b], infos[b]).changed}},
                 errors |-> 0,
                 onChain |-> [a \in S |-> [exists |-> infos[a].exists,
                                           lamports |-> infos[a].lamports]]])
  /\ UNCHANGED <<reclaim_transactions, whitelist, blacklist, env_vars>>

checkSingleAccount(t, a) ==
  /\ task[t] = Idle
  /\ IF tracked_accounts[a] = NoRow
     THEN Return(t, [op |-> "checkSingleAccount", addr |-> a, change |-> NoChange])
     ELSE Begin(t, [op |-> "checkSingleAccount", pc |-> "read", addr |-> a,
                    account |-> tracked_accounts[a]])
  /\ UNCHANGED <<db_vars, env_vars>>

checkSingleAccountRead(t) ==
  /\ task[t].op = "checkSingleAccount"
  /\ task[t].pc = "read"
  /\ LET a == task[t].addr IN
     \E threw \in BOOLEAN, info \in Infos:
       IF threw
       THEN /\ Return(t, [op |-> "checkSingleAccount", addr |-> a, change |-> NoChange])
            /\ UNCHANGED tracked_accounts
       ELSE LET c == detectStatusChange(task[t].account, info) IN
            /\ tracked_accounts' =
                 IF c.changed THEN ApplyChange(tracked_accounts, a, c, now)
                 ELSE tracked_accounts
            /\ Return(t, [op |-> "checkSingleAccount", addr |-> a, change |-> c])
  /\ UNCHANGED <<reclaim_transactions, whitelist, blacklist, env_vars>>

\* ------------------------------------------------------ KoraReclaimService
\* monitorTask and discoveryTask tell whether the field holds a task handle;
\* scheduledMonitor and scheduledDiscovery count the cron tasks that exist
\* and have not been stopped
Stopped ==
  [isRunning |-> FALSE, monitorTask |-> FALSE, discoveryTask |-> FALSE,
   scheduledMonitor |-> 0, scheduledDiscovery |-> 0]

Started ==
  [isRunning |-> TRUE, monitorTask |-> TRUE, discoveryTask |-> TRUE,
   scheduledMonitor |-> 1, scheduledDiscovery |-> 1]

\* variant of canStart without the isRunning guard of start() (C39)
canStart_Always(s) == TRUE

\* start() returns at once when the service is running
canStart(s) == ~s.isRunning

\* start(): cron.schedule creates a task of each kind and the fields take
\* the new handles
Schedule(s) ==
  [isRunning |-> TRUE, monitorTask |-> TRUE, discoveryTask |-> TRUE,
   scheduledMonitor |-> s.scheduledMonitor + 1,
   scheduledDiscovery |-> s.scheduledDiscovery + 1]

\* stop(): the task each field holds is stopped and the field is cleared
Unschedule(s) ==
  [isRunning |-> FALSE, monitorTask |-> FALSE, discoveryTask |-> FALSE,
   scheduledMonitor |-> s.scheduledMonitor - (IF s.monitorTask THEN 1 ELSE 0),
   scheduledDiscovery |-> s.scheduledDiscovery - (IF s.discoveryTask THEN 1 ELSE 0)]

\* the configuration under which a cycle reclaims: AUTO_RECLAIM=true, DRY_RUN=false
autoReclaim == TRUE

\* the writes of one pass of checkAllAccounts over its snapshot
CheckAll(db, snap, infos, t) ==
  [a \in Addrs |->
     IF a \in DOMAIN snap THEN CheckOne(db, a, snap[a], infos[a], t)[a] ELSE db[a]]

\* runMonitorCycle after checkAllAccounts has returned: the reclaim phase
\* starts over the table db, or the cycle is over
ReclaimPhase(t, db) ==
  IF autoReclaim
  THEN LET eligible == getEligibleAccounts(db, whitelist, blacklist, now) IN
       \E q \in Orders(eligible) :
         Continue(t, q, EmptySummary(Cardinality(eligible)), FALSE, db)
  ELSE Return(t, [op |-> "runMonitorCycle"])

\* runMonitorCycle up to its first await: checkAllAccounts takes its snapshot
\* and awaits the batched read; a pass with nothing to poll returns without
\* a ledger read and the reclaim phase follows
runMonitorCycle(t) ==
  /\ task[t] = Idle
  /\ Len(reclaim_transactions) < MaxLog
  /\ LET S == accountsToCheck(tracked_accounts) IN
       IF S = {}
       THEN ReclaimPhase(t, tracked_accounts)
       ELSE Begin(t, [op |-> "runMonitorCycle", pc |-> "batch_read",
                      accountsToCheck |-> [a \in S |-> tracked_accounts[a]]])
  /\ UNCHANGED <<db_vars, now>>

\* the batched read of the cycle's pass resolves (a failed read is caught
\* inside checkAllAccounts), the pass writes, and the reclaim phase follows
runMonitorCycleRead(t) ==
  /\ task[t].op = "runMonitorCycle"
  /\ task[t].pc = "batch_read"
  /\ LET snap == task[t].accountsToCheck IN
     \E threw \in BOOLEAN, infos \in [DOMAIN snap -> Infos] :
       LET db == IF threw THEN tracked_accounts
                 ELSE CheckAll(tracked_accounts, snap, infos, now) IN
         /\ tracked_accounts' = db
         /\ ReclaimPhase(t, db)
  /\ UNCHANGED <<reclaim_transactions, whitelist, blacklist, env_vars>>

\* start(): schedules both tasks and runs the initial cycle without awaiting it
start(t) ==
  /\ canStart(service)
  /\ service' = Schedule(service)
  /\ runMonitorCycle(t)

\* stop(): stops both scheduled tasks; cycles in flight are not touched
stop ==
  /\ service.isRunning
  /\ service' = Unschedule(service)
  /\ ret' = [t \in Tasks |-> NoRet]
  /\ UNCHANGED <<db_vars, now, task>>

\* The SIGINT/SIGTERM handler of main: shutdown() stops the schedules and
\* closes the database, then process.exit ends the process, and with it
\* every handler that was awaiting.
shutdown ==
  /\ service' = Stopped
  /\ task' = [t \in Tasks |-> Idle]
  /\ ret' = [t \in Tasks |-> NoRet]
  /\ UNCHANGED <<db_vars, now>>

\* the monitor schedule fires: its callback runs a cycle
cronMonitor(t) ==
  /\ service.scheduledMonitor > 0
  /\ runMonitorCycle(t)
  /\ UNCHANGED service

triggerMonitor(t) ==
  /\ runMonitorCycle(t)
  /\ UNCHANGED service

\* ------------------------------------------------------------ the process
\* The State Store writes reclaimSingleAccount makes after a confirmed live
\* submission, each saved to the file on its own: the first k of
\* recordReclaimTransaction, updateAccountStatus, updateAccountRent.
SuccessWritesDone(k, log, db, a) ==
  [log |-> IF k >= 1 THEN recordReclaimTransaction(log, a, "tx", TRUE, "") ELSE log,
   db |-> IF k >= 3 THEN ReclaimedWrite(db, a)
          ELSE IF k = 2 THEN updateAccountStatus(db, a, "reclaimed", Null)
          ELSE db]

\* The process dies: every handler in flight is lost, the file keeps what
\* was saved.  A death while a handler awaits changes nothing (point 0, for
\* a submission in flight the ledger may have executed it); a death inside
\* the writes after a confirmed submission keeps the first k of them.
crash ==
  /\ \E k \in 0..2 :
       /\ k > 0 => (task[Main].op = "reclaim" /\ task[Main].pc = "submit"
                    /\ ~task[Main].dryRun)
       /\ LET a == IF k > 0 THEN task[Main].addr ELSE "a1"
              w == SuccessWritesDone(k, reclaim_transactions, tracked_accounts, a)
          IN /\ reclaim_transactions' = w.log
             /\ tracked_accounts' = w.db
       /\ ret' = [t \in Tasks |->
                   IF t = Main THEN [op |-> "crash", point |-> k] ELSE NoRet]
  /\ task' = [t \in Tasks |-> Idle]
  /\ service' = Stopped
  /\ UNCHANGED <<whitelist, blacklist, now>>

\* ------------------------------------------------------------------ Init
Init ==
  /\ tracked_accounts = [a \in Addrs |-> NoRow]
  /\ reclaim_transactions = <<>>
  /\ whitelist = {}
  /\ blacklist = {}
  /\ now = 0
  /\ task = [t \in Tasks |-> Idle]
  /\ ret = [t \in Tasks |-> NoRet]
  /\ service = Stopped

\* ------------------------------------------------------------------ Next
\* One logical thread of control: a handler starts only when none is in
\* flight; the clock moves at any time.
Steps(t) ==
  \/ addAccountManuallyRead(t)
  \/ checkEligibilityRead(t)
  \/ reclaimEligibilityRead(t)
  \/ reclaimPreRead(t)
  \/ reclaimCloseRead(t)
  \/ reclaimSubmit(t)
  \/ reclaimBatchDelay(t)
  \/ checkAllAccountsRead(t)
  \/ checkSingleAccountRead(t)

Calls(t, A) ==
  \/ \E a \in A : addAccountManually(t, a)
  \/ \E a \in A : addToWhitelist(t, a)
  \/ \E a \in A : removeFromWhitelist(t, a)
  \/ \E a \in A : addToBlacklist(t, a)
  \/ \E a \in A : checkEligibility(t, a)
  \/ \E a \in A, dry \in BOOLEAN : reclaimSingleAccount(t, a, dry)
  \/ \E dry \in BOOLEAN : reclaimAllEligible(t, dry)
  \/ checkAllAccounts(t)
  \/ \E a \in A : checkSingleAccount(t, a)

Next == Tick \/ Steps(Main) \/ Calls(Main, One)

Spec == Init /\ [][Next]_vars

\* The operations of Spec in a process that can die at any moment and be
\* started again
NextCrash == Next \/ crash

SpecCrash == Init /\ [][NextCrash]_vars

\* The service process: cycles started by start(), by the schedule and by
\* triggerMonitor run as concurrent tasks over a table other commands filled.
ServiceRows ==
  {[status |-> "active", rent_lamports |-> minReclaimLamports, closed_at |-> Null],
   [status |-> "closed", rent_lamports |-> minReclaimLamports, closed_at |-> 0]}

InitService ==
  /\ tracked_accounts \in {db \in [Addrs -> ServiceRows \cup {NoRow}] :
                              \A a \in Addrs \ One : db[a] = NoRow}
  /\ reclaim_transactions = <<>>
  /\ whitelist = {}
  /\ blacklist = {}
  /\ now = 0
  /\ task = [t \in Tasks |-> Idle]
  /\ ret = [t \in Tasks |-> NoRet]
  /\ service = Stopped

CycleSteps(t) ==
  \/ runMonitorCycleRead(t)
  \/ reclaimEligibilityRead(t)
  \/ reclaimPreRead(t)
  \/ reclaimCloseRead(t)
  \/ reclaimSubmit(t)
  \/ reclaimBatchDelay(t)

NextService ==
  \/ Tick
  \/ stop
  \/ shutdown
  \/ \E t \in Tasks : start(t) \/ cronMonitor(t) \/ triggerMonitor(t) \/ CycleSteps(t)

SpecService == InitService /\ [][NextService]_vars

\* Discovery and manual tracking over two addresses, one run at a time
DiscoverySteps(t) ==
  \/ discoverSignaturesRead(t)
  \/ discoverTxRead(t)
  \/ discoverAccountRead(t)
  \/ addAccountManuallyRead(t)

DiscoveryCalls(t) ==
  \/ \E hist \in Histories, configured \in BOOLEAN :
       discoverSponsoredAccounts(t, hist, configured)
  \/ \E a \in Addrs : addAccountManually(t, a)

NextDiscovery == Tick \/ DiscoverySteps(Main) \/ DiscoveryCalls(Main)

SpecDiscovery == Init /\ [][NextDiscovery]_vars

\* Reconciliation over a table of several accounts: addresses are tracked by
\* hand and allow-listed, passes poll them.
MonitorSteps(t) ==
  \/ addAccountManuallyRead(t)
  \/ checkAllAccountsRead(t)

MonitorCalls(t) ==
  \/ \E a \in Addrs : addAccountManually(t, a)
  \/ \E a \in Addrs : addToWhitelist(t, a)
  \/ checkAllAccounts(t)

NextMonitor == Tick \/ MonitorSteps(Main) \/ MonitorCalls(Main)

SpecMonitor == Init /\ [][NextMonitor]_vars

\* the task of a second caller
Other == "t2"

\* A live batch over two accounts closed a dormancy period ago.  While an
\* address waits for its turn another caller starts a reclaim of it (the
\* first account) or puts it on a list (the second one).
InitBatch ==
  /\ tracked_accounts =
       [a \in Addrs |-> [status |-> "closed", rent_lamports |-> minReclaimLamports,
                         closed_at |-> 0]]
  /\ reclaim_transactions = <<>>
  /\ whitelist = {}
  /\ blacklist = {}
  /\ now = minDormancyDays * DayTicks
  /\ task = [t \in Tasks |-> Idle]
  /\ ret = [t \in Tasks |-> NoRet]
  /\ service = Stopped

ReclaimSteps(t) ==
  \/ reclaimEligibilityRead(t)
  \/ reclaimPreRead(t)
  \/ reclaimCloseRead(t)
  \/ reclaimSubmit(t)

\* address a still waits for its turn in the batch of task Main
Waits(a) ==
  /\ task[Main].op = "reclaim"
  /\ \E i \in DOMAIN task[Main].batch.queue : task[Main].batch.queue[i] = a

NextBatch ==
  \/ reclaimAllEligible(Main, FALSE)
  \/ ReclaimSteps(Main)
  \/ reclaimBatchDelay(Main)
  \/ \E a \in Addrs \ One : Waits(a) /\ addToWhitelist(Other, a)
  \/ \E a \in Addrs \ One : Waits(a) /\ addToBlacklist(Other, a)
  \/ \E a \in One : Waits(a) /\ reclaimSingleAccount(Other, a, FALSE)
  \/ ReclaimSteps(Other)

SpecBatch == InitBatch /\ [][NextBatch]_vars

\* A discovery run over a one-transaction history with addAccountManually
\* calls of another caller in flight at the same time.
NextOverlap ==
  \/ Tick
  \/ DiscoverySteps(Main)
  \/ \E hist \in {h \in Histories : Len(h) = 1} :
       discoverSponsoredAccounts(Main, hist, TRUE)
  \/ \E a \in Addrs : addAccountManually(Other, a)
  \/ addAccountManuallyRead(Other)

SpecOverlap == Init /\ [][NextOverlap]_vars

\* Eligibility evaluations for different addresses in flight at once: each
\* task tracks and evaluates its own address.
AddrOf(t) == IF t = Main THEN "a1" ELSE "a2"

EligibilitySteps(t) ==
  \/ addAccountManuallyRead(t)
  \/ checkEligibilityRead(t)

EligibilityCalls(t) ==
  \/ addAccountManually(t, AddrOf(t))
  \/ checkEligibility(t, AddrOf(t))

NextEligibility ==
  \/ Tick
  \/ \E t \in Tasks : EligibilitySteps(t) \/ EligibilityCalls(t)

SpecEligibility == Init /\ [][NextEligibility]_vars

\* ------------------------------------------------------------ observations
Row(a) == tracked_accounts[a]

Tracked(a) == tracked_accounts[a] # NoRow

\* the rows of the reclaim log that record a live submission that succeeded
LiveSuccesses(a) ==
  {i \in DOMAIN reclaim_transactions :
     /\ reclaim_transactions[i].account_pubkey = a
     /\ reclaim_transactions[i].success
     /\ reclaim_transactions[i].tx_signature = "tx"}

SuccessRows(a) ==
  {i \in DOMAIN reclaim_transactions :
     /\ reclaim_transactions[i].account_pubkey = a
     /\ reclaim_transactions[i].success}

\* this step appends exactly the row r to the reclaim log
Appends(r) == reclaim_transactions' = Append(reclaim_transactions, r)

\* this step is the resolution of a live submission for address a
SubmissionResolves(a) ==
  /\ task[Main].op = "reclaim"
  /\ task[Main].pc = "submit"
  /\ task[Main].addr = a
  /\ reclaim_transactions' # reclaim_transactions

\* ------------------------------------------------------------------ C1
\* C1: over any sequence of reclaim attempts on one address, at most one
\* live submission for it ever succeeds: the reclaim log never holds two
\* successful live rows for the same address.
C1_AtMostOneLiveSuccess ==
  \A a \in Addrs : Cardinality(LiveSuccesses(a)) <= 1

C3_ReclaimedOnlyFromClosedBySubmission ==
  [][\A a \in Addrs :
       (Tracked(a) /\ Row(a).status # "reclaimed" /\ Row(a)'.status = "reclaimed")
         => /\ SubmissionResolves(a)
            /\ Appends([account_pubkey |-> a, tx_signature |-> "tx",
                        success |-> TRUE, error_message |-> ""])
            /\ Row(a).status = "closed"]_vars

\* ------------------------------------------------------------------ C4
\* C4: every change of a tracked account's stored status is one of the
\* lifecycle transitions Active->Inactive, Active/Inactive->Closed,
\* Closed->Active, Closed->Reclaimed, any->Whitelisted; the last is made by
\* the allow-list add, the others only by a step of checkAllAccounts,
\* checkSingleAccount or reclaimSingleAccount.
Lifecycle ==
  {<<"active", "inactive">>, <<"active", "closed">>, <<"inactive", "closed">>,
   <<"closed", "active">>, <<"closed", "reclaimed">>}

C4_OnlyLifecycleTransitions ==
  [][\A a \in Addrs :
       (Tracked(a) /\ Row(a)'.status # Row(a).status)
         => \/ /\ Row(a)'.status = "whitelisted"
               /\ task[Main] = Idle
               /\ a \in whitelist'
            \/ /\ <<Row(a).status, Row(a)'.status>> \in Lifecycle
               /\ task[Main].op \in {"checkAllAccounts", "checkSingleAccount", "reclaim"}]_vars

\* ------------------------------------------------------------------ C5
\* C5: for a tracked address on the allow-list checkEligibility returns
\* eligible = FALSE with the allow-list reason, whatever the stored balance,
\* closure time and ledger say; no evaluation of it goes on to a ledger read
\* and no reclaim of it is in flight or awaits a submission.
C5_AllowListedNeverEligible ==
  /\ \A a \in Addrs :
       (/\ ret[Main].op = "checkEligibility"
        /\ ret[Main].addr = a
        /\ Tracked(a)
        /\ a \in whitelist)
         => /\ "eligible" \in DOMAIN ret[Main]
            /\ ~ret[Main].eligible
            /\ ret[Main].reasons = <<"whitelisted">>
  /\ (task[Main].op \in {"checkEligibility", "reclaim"} /\ task[Main].pc # "delay")
       => task[Main].addr \notin whitelist

C5_Witness ==
  /\ ret[Main].op = "checkEligibility"
  /\ ret[Main].addr = "a1"
  /\ "a1" \in whitelist
  /\ Tracked("a1")
  /\ Row("a1").rent_lamports >= minReclaimLamports
  /\ ret[Main].reasons = <<"whitelisted">>

\* ------------------------------------------------------------------ C6
\* C6: whenever checkEligibility returns eligible for an account whose
\* closure time is recorded in the State Store, at least minDormancyDays
\* have elapsed since that recorded time.
C6_EligibleOnlyAfterDormancy ==
  \A a \in Addrs :
    (/\ ret[Main].op = "checkEligibility"
     /\ ret[Main].addr = a
     /\ "eligible" \in DOMAIN ret[Main]
     /\ ret[Main].eligible
     /\ Row(a).closed_at # Null)
      => now - Row(a).closed_at >= minDormancyDays * DayTicks

\* ------------------------------------------------------------------ C7
\* C7: in live mode closeAccountAndReclaimRent goes on to a submission only
\* for an account owned by the system program; for an owner it does not
\* recognize it fails with "manual intervention required", and the failed
\* call leaves a failed row and no submission.
Recognized == {"system", "token"}

C7_SubmitsOnlyForRecognizedOwner ==
  /\ \A info \in Infos :
       /\ closeAccountAndReclaimRent(info, FALSE) = "submit"
            => (info.exists /\ info.owner = "system")
       /\ (info.exists /\ info.owner \notin Recognized)
            => closeAccountAndReclaimRent(info, FALSE) = "manual_intervention"
  /\ (task[Main].op = "reclaim" /\ task[Main].pc = "submit")
       => (task[Main].owner = "system" /\ ~task[Main].dryRun)
  /\ \A i \in DOMAIN reclaim_transactions :
       reclaim_transactions[i].error_message = "manual_intervention"
         => /\ ~reclaim_transactions[i].success
            /\ reclaim_transactions[i].tx_signature = "failed"

C7_Witness ==
  /\ ret[Main].op = "reclaimSingleAccount"
  /\ "error" \in DOMAIN ret[Main]
  /\ ret[Main].error = "manual_intervention"
  /\ ~ret[Main].dryRun
  /\ reclaim_transactions # <<>>
  /\ reclaim_transactions[Len(reclaim_transactions)].error_message = "manual_intervention"

\* ------------------------------------------------------------------ C8
\* the blocking reasons of the Eligibility Policy
PolicyReasons ==
  {"not_tracked", "already_reclaimed", "whitelisted", "blacklisted",
   "not_closed", "no_rent", "dormancy", "below_min"}

\* this step is a single reclaimSingleAccount call coming back from its
\* eligibility evaluation without going on to the balance re-read
ReturnsFromEligibility ==
  /\ ret'[Main].op = "reclaimSingleAccount"
  /\ "success" \in DOMAIN ret'[Main]
  /\ \/ task[Main] = Idle
     \/ (task[Main].op = "reclaim" /\ task[Main].pc = "elig_read")

RemainsEligible(a, seen) ==
  /\ EligibilityPrefix(Row(a)', a, whitelist', blacklist') = "ok"
  /\ EligibilityOnChain(Row(a)', seen, now').eligible

\* C9: when a live submission fails, reclaimSingleAccount appends exactly
\* one failed row carrying the error, the account's status and rent are what
\* they were when the call started, and the account remains eligible.
C9_FailedSubmissionKeepsAccountEligible ==
  [][\A a \in Addrs :
       (SubmissionResolves(a)
          /\ ~reclaim_transactions'[Len(reclaim_transactions')].success)
         => /\ Appends([account_pubkey |-> a, tx_signature |-> "failed",
                        success |-> FALSE, error_message |-> "submit_failed"])
            /\ UNCHANGED tracked_accounts
            /\ Row(a)'.status = task[Main].account.status
            /\ Row(a)'.rent_lamports = task[Main].account.rent_lamports
            /\ RemainsEligible(a, task[Main].seen)]_vars

\* ----------------------------------------------------------------- C10
\* this step belongs to a dry-run reclaimSingleAccount or dry-run batch
DryRunStep ==
  \/ (task[Main].op = "reclaim" /\ task[Main].dryRun)
  \/ (task[Main] = Idle /\ task'[Main].op = "reclaim" /\ task'[Main].dryRun)
  \/ (task[Main] = Idle /\ ret'[Main].op = "reclaimSingleAccount"
        /\ ret'[Main].dryRun)
  \/ (task[Main] = Idle /\ ret'[Main].op = "reclaimAllEligible")

\* C10 as stated: a dry-run reclaim never changes the status or the rent of
\* any tracked account.
C10_DryRunChangesNoStatusOrRent ==
  [][DryRunStep
       => \A a \in Addrs :
            Tracked(a) => /\ Row(a)'.status = Row(a).status
                          /\ Row(a)'.rent_lamports = Row(a).rent_lamports]_vars

\* C10 amended: a dry-run reclaim never changes the rent of any tracked
\* account and never makes one Reclaimed; the only status change it can
\* make is the eligibility policy's correction of the evaluated account to
\* Closed with closedAt = now.
C10_DryRunOnlyCorrectsStatus ==
  [][DryRunStep
       => \A a \in Addrs :
            Tracked(a)
              => /\ Row(a)'.rent_lamports = Row(a).rent_lamports
                 /\ \/ Row(a)' = Row(a)
                    \/ /\ task[Main].op = "reclaim"
                       /\ task[Main].pc = "elig_read"
                       /\ task[Main].addr = a
                       /\ Row(a).status # "closed"
                       /\ Row(a)' = [Row(a) EXCEPT !.status = "closed",
                                                   !.closed_at = now]]_vars

C10_Witness ==
  /\ ret[Main].op = "reclaimSingleAccount"
  /\ "success" \in DOMAIN ret[Main]
  /\ ret[Main].dryRun
  /\ ret[Main].success
  /\ Row("a1").status = "closed"
  /\ Row("a1").closed_at = now
  /\ Row("a1").rent_lamports >= minReclaimLamports
  /\ Len(reclaim_transactions) = 1
  /\ reclaim_transactions[1].tx_signature = "dry-run-signature"

\* ----------------------------------------------------------------- C11
\* this step is a single dry-run reclaimSingleAccount call returning a result
DryRunReturns ==
  /\ ret'[Main].op = "reclaimSingleAccount"
  /\ "success" \in DOMAIN ret'[Main]
  /\ ret'[Main].dryRun

\* C11: every dry-run reclaimSingleAccount call appends exactly one row for
\* the address, whatever its outcome: the step in which the call returns
\* appends one row (a success row carries the synthetic reference) and no
\* earlier step of the call appends any.
C11_DryRunAppendsOneRow ==
  [][/\ DryRunReturns
          => \E r \in {reclaim_transactions'[i] : i \in DOMAIN reclaim_transactions'} :
               /\ Appends(r)
               /\ r.account_pubkey = ret'[Main].addr
               /\ r.success = ret'[Main].success
               /\ r.success => r.tx_signature = "dry-run-signature"
     /\ (/\ task[Main].op = "reclaim"
         /\ task[Main].dryRun
         /\ ~task[Main].batch.active
         /\ task'[Main] # Idle)
          => UNCHANGED reclaim_transactions]_vars

\* ----------------------------------------------------------------- C18
\* C18: in every result checkEligibility returns, the list of blocking
\* reasons is empty if and only if eligible is true.
C18_ReasonsEmptyIffEligible ==
  (ret[Main].op = "checkEligibility" /\ "eligible" \in DOMAIN ret[Main])
    => (ret[Main].reasons = <<>> <=> ret[Main].eligible)

\* ----------------------------------------------------------------- C19
\* C19: in every reachable State Store state a tracked account has closedAt
\* set if and only if its status is Closed or Reclaimed.
C19_ClosedAtIffClosedOrReclaimed ==
  \A a \in Addrs :
    Tracked(a)
      => (Row(a).closed_at # Null <=> Row(a).status \in {"closed", "reclaimed"})

\* ----------------------------------------------------------------- C20
\* C20: once the stored status of an account is Reclaimed, no step of any
\* operation changes it.
C20_ReclaimedIsTerminal ==
  [][\A a \in Addrs :
       (Tracked(a) /\ Row(a).status = "reclaimed")
         => Row(a)'.status = "reclaimed"]_vars


\* ----------------------------------------------------------------- C14
\* this step returns from a discovery run that started right after a run over
\* the same history had returned
SecondRunReturns ==
  /\ task[Main].op = "discover"
  /\ task[Main].prev.set
  /\ task[Main].prev.hist = task[Main].hist
  /\ ret'[Main].op = "discoverSponsoredAccounts"

Statuses == {"active", "inactive", "closed", "reclaimed", "whitelisted"}

\* the rows a table can hold
Rows ==
  [status : Statuses, rent_lamports : 0..MaxLamports,
   closed_at : {Null} \cup 0..MaxNow]

\* the number of the first rule of the reconciliation table that matches
FirstRule(status, stored, exists, current) ==
  IF status \in {"reclaimed", "whitelisted"} THEN 1
  ELSE IF ~exists /\ status # "closed" THEN 2
  ELSE IF exists /\ status = "closed" THEN 3
  ELSE IF exists /\ status = "active" /\ 10 * current < stored THEN 4
  ELSE 5

\* status and balance the table prescribes
Prescribed(status, stored, exists, current) ==
  CASE FirstRule(status, stored, exists, current) = 1 ->
         [status |-> status, rent_lamports |-> stored]
    [] FirstRule(status, stored, exists, current) = 2 ->
         [status |-> "closed", rent_lamports |-> 0]
    [] FirstRule(status, stored, exists, current) = 3 ->
         [status |-> "active", rent_lamports |-> current]
    [] FirstRule(status, stored, exists, current) = 4 ->
         [status |-> "inactive", rent_lamports |-> current]
    [] OTHER -> [status |-> status, rent_lamports |-> current]

\* detectStatusChange decides what the table prescribes for status
DecisionFollowsTable ==
  \A tracked \in Rows, onChain \in Infos :
    LET c == detectStatusChange(tracked, onChain)
        p == Prescribed(tracked.status, tracked.rent_lamports,
                        onChain.exists, onChain.lamports)
    IN /\ c.changed <=> p.status # tracked.status
       /\ c.changed => c.newStatus = p.status /\ c.newRent = p.rent_lamports

\* one turn of the pass over a polled row writes what the table prescribes,
\* and writes nothing when the table prescribes the stored values
TurnFollowsTable ==
  \A tracked \in Rows, onChain \in Infos, t \in 0..MaxNow :
    tracked.status \in {"active", "inactive"}
      => LET db == [a \in Addrs |-> tracked]
             row == CheckOne(db, "a1", tracked, onChain, t)["a1"]
             p == Prescribed(tracked.status, tracked.rent_lamports,
                             onChain.exists, onChain.lamports)
         IN /\ row.status = p.status
            /\ row.rent_lamports = p.rent_lamports
            /\ (p.status = tracked.status /\ p.rent_lamports = tracked.rent_lamports)
                 => row = tracked

\* this step ends a pass of checkAllAccounts whose batch read succeeded
PassReturns ==
  /\ task[Main].op = "checkAllAccounts"
  /\ ret'[Main].op = "checkAllAccounts"
  /\ ret'[Main].errors = 0

FirstFailingCheck(row, a, wl, bl, seen, t) ==
  IF row = NoRow THEN "not_tracked"
  ELSE IF row.status = "reclaimed" THEN "already_reclaimed"
  ELSE IF a \in wl THEN "whitelisted"
  ELSE IF a \in bl THEN "blacklisted"
  ELSE IF seen.exists /\ seen.lamports > 0 /\ seen.lamports >= minReclaimLamports
    THEN "not_closed"
  ELSE IF ~seen.exists /\ row.rent_lamports = 0 THEN "no_rent"
  ELSE LET closedAt == IF ~seen.exists /\ row.status # "closed"
                       THEN t ELSE row.closed_at
       IN IF closedAt # Null /\ (t - closedAt) \div DayTicks < minDormancyDays
            THEN "dormancy"
          ELSE IF row.rent_lamports < minReclaimLamports THEN "below_min"
          ELSE "none"

\* C17: checkEligibility applies its checks in the order tracked, not
\* Reclaimed, not allow-listed, not deny-listed, on-chain, dormancy, minimum
\* balance; it returns ineligible exactly when some check fails, with the
\* reason of the first failing check, and eligible when all pass.
C17_FirstFailingCheckDecides ==
  [][/\ (task[Main] = Idle /\ ret'[Main].op = "checkEligibility")
          => LET a == ret'[Main].addr
                 f == FirstFailingCheck(Row(a), a, whitelist, blacklist, Gone, now)
             IN /\ f \in {"not_tracked", "already_reclaimed", "whitelisted", "blacklisted"}
                /\ ~ret'[Main].eligible
                /\ ret'[Main].reasons[1] = f
     /\ (/\ task[Main].op = "checkEligibility"
         /\ ret'[Main].op = "checkEligibility"
         /\ "eligible" \in DOMAIN ret'[Main])
          => LET a == ret'[Main].addr
                 f == FirstFailingCheck(Row(a), a, whitelist, blacklist,
                                        ret'[Main].seen, now)
             IN /\ ret'[Main].eligible <=> f = "none"
                /\ ~ret'[Main].eligible => ret'[Main].reasons[1] = f]_vars


\* ----------------------------------------------------------------- C12
\* the tasks whose ledger submission is in flight
Submitting == {t \in Tasks : task[t].op = "reclaim" /\ task[t].pc = "submit"}

\* C12: at any time at most one ledger submission is in flight, whichever
\* of the schedule, start() and triggerMonitor started the cycles.
C12_AtMostOneSubmissionInFlight == Cardinality(Submitting) <= 1

\* ----------------------------------------------------------------- C13
\* task t is in the reconciliation phase of a cycle and polls address a
Reconciling(t, a) ==
  /\ task[t].op = "runMonitorCycle"
  /\ a \in DOMAIN task[t].accountsToCheck

\* task t is in the reclaim phase of a cycle and works on address a
Reclaiming(t, a) ==
  /\ task[t].op = "reclaim"
  /\ task[t].pc # "delay"
  /\ task[t].addr = a

\* C13: reconciliation and the Reclaim Executor never run concurrently
\* against the same address, and no phase of another cycle runs while a
\* cycle is in flight.
C13_CyclesDoNotInterleave ==
  /\ \A t, u \in Tasks, a \in Addrs : ~(Reconciling(t, a) /\ Reclaiming(u, a))
  /\ Cardinality({t \in Tasks : task[t] # Idle}) <= 1


\* ----------------------------------------------------------------- C21
\* C21: every tracked account whose address is on the allow-list has status
\* Whitelisted, whether it was allow-listed before or after it became tracked.
C21_AllowListedIsWhitelisted ==
  \A a \in Addrs :
    (Tracked(a) /\ a \in whitelist) => Row(a).status = "whitelisted"

\* ----------------------------------------------------------------- C22
\* this step is a call of checkAllAccounts
PassStarts ==
  /\ task[Main] = Idle
  /\ \/ task'[Main].op = "checkAllAccounts"
     \/ ret'[Main].op = "checkAllAccounts"

\* C22: an account left in status Whitelisted after its address was removed
\* from the allow-list is covered again by reconciliation: a pass started
\* then polls it.
C22_RemovedFromAllowListIsPolledAgain ==
  [][PassStarts
       => \A a \in Addrs :
            (Tracked(a) /\ Row(a).status = "whitelisted" /\ a \notin whitelist)
              => /\ task'[Main].op = "checkAllAccounts"
                 /\ a \in DOMAIN task'[Main].accountsToCheck]_vars

BatchReturned == ret[Main].op = "reclaimAllEligible"

\* the sum of the amounts of the successful results of a summary
RECURSIVE SuccessfulAmount(_)
SuccessfulAmount(results) ==
  IF results = <<>> THEN 0
  ELSE (IF Head(results).success THEN Head(results).lamportsReclaimed ELSE 0)
       + SuccessfulAmount(Tail(results))

\* C24: one account's failure never aborts a batch reclaim: every account of
\* the eligible set computed at the start is attempted and has a result in
\* the summary.
C24_BatchAttemptsEveryEligibleAccount ==
  BatchReturned
    => LET sum == ret[Main].summary IN
       /\ sum.totalAttempted = sum.totalEligible
       /\ Len(sum.results) = sum.totalEligible

\* ----------------------------------------------------------------- C25
\* C25: in every batch summary each address is attempted at most once,
\* totalAttempted = totalSuccessful + totalFailed = size of the eligible set,
\* and totalLamportsReclaimed is the sum of the amounts of the successful
\* results.
C25_BatchSummaryAddsUp ==
  BatchReturned
    => LET sum == ret[Main].summary IN
       /\ \A i, j \in DOMAIN sum.results :
            i # j => sum.results[i].addr # sum.results[j].addr
       /\ sum.totalAttempted = sum.totalSuccessful + sum.totalFailed
       /\ sum.totalAttempted = sum.totalEligible
       /\ sum.totalLamportsReclaimed = SuccessfulAmount(sum.results)


\* ----------------------------------------------------------------- C26
\* C26: stopping the service leaves no scheduled cycle to start, and a cycle
\* in flight runs to completion: a task in flight ends only by a step of its
\* own that returns.
C26_StopLetsCyclesInFlightFinish ==
  [][/\ (service.isRunning /\ ~service'.isRunning)
          => (~service'.monitorTask /\ ~service'.discoveryTask)
     /\ \A t \in Tasks :
          (task[t] # Idle /\ task'[t] = Idle) => ret'[t] # NoRet]_vars


\* ----------------------------------------------------------------- C27
\* this step is the death of the process
Crashes == ret'[Main].op = "crash"

\* the process dies with a live submission sent and the status not yet written
CrashesInHazardWindow ==
  /\ Crashes
  /\ task[Main].op = "reclaim"
  /\ task[Main].pc = "submit"
  /\ ~task[Main].dryRun
  /\ ret'[Main].point < 2

\* C27: a crash during reclaimSingleAccount leaves the State Store out of
\* step with the ledger only between submission success and the status
\* write, and then the account still reads Closed with a nonzero balance; a
\* crash at any point leaves Reclaimed => balance 0 and a successful row.
C27_CrashKeepsInvariants ==
  [][/\ Crashes
          => \A a \in Addrs :
               (Tracked(a)' /\ Row(a)'.status = "reclaimed")
                 => (Row(a)'.rent_lamports = 0 /\ SuccessRows(a)' # {})
     /\ CrashesInHazardWindow
          => /\ tracked_accounts'[task[Main].addr].status = "closed"
             /\ tracked_accounts'[task[Main].addr].rent_lamports > 0]_vars


\* ----------------------------------------------------------------- C28
\* the log holds a failed row for address a whose error is the unsupported
\* owner ("manual intervention required")
UnsupportedFailure(a) ==
  \E i \in DOMAIN reclaim_transactions :
    /\ reclaim_transactions[i].account_pubkey = a
    /\ ~reclaim_transactions[i].success
    /\ reclaim_transactions[i].error_message = "manual_intervention"

\* C28: an account whose reclaim failed because its owner is unsupported is
\* not attempted again by later cycles: no batch works on an address that
\* has such a failure in the log.
C28_UnsupportedOwnerIsNotRetried ==
  \A t \in Tasks :
    (/\ task[t].op = "reclaim"
     /\ task[t].batch.active
     /\ task[t].pc # "delay")
      => ~UnsupportedFailure(task[t].addr)


\* ----------------------------------------------------------------- C29
\* What reclaimSingleAccount(a, dry) decides over the table db and the lists
\* when every one of its ledger reads returns info: the reason it fails
\* with, "dry_run" (simulated success) or "submit".
reclaimDecision(db, wl, bl, a, info, t, dry) ==
  LET pre == EligibilityPrefix(db[a], a, wl, bl) IN
    IF pre # "ok" THEN pre
    ELSE LET e == EligibilityOnChain(db[a], info, t) IN
      IF ~e.eligible THEN e.reasons[1]
      ELSE IF lamportsToReclaim(info, db[a]) = 0 THEN "no_lamports"
      ELSE closeAccountAndReclaimRent(info, dry)

\* C29: for the same State Store and ledger state a dry-run reports success
\* exactly when the live run reaches submission, and otherwise both report
\* the same failure.
C29_DryRunDecidesAsLive ==
  \A a \in One, info \in Infos :
    LET dry == reclaimDecision(tracked_accounts, whitelist, blacklist, a, info, now, TRUE)
        live == reclaimDecision(tracked_accounts, whitelist, blacklist, a, info, now, FALSE)
    IN /\ dry = "dry_run" <=> live = "submit"
       /\ dry # "dry_run" => dry = live


\* ----------------------------------------------------------------- C30
\* C30: an account that a monitoring pass marks Closed because it is gone
\* on-chain, whose stored balance was at least the minimum and which is on
\* neither list, is reclaimed once the dormancy period has passed: a live
\* reclaimSingleAccount of it, run a dormancy period later over the row the
\* pass left, reaches submission.
C30_MonitorClosedAccountIsReclaimed ==
  [][PassReturns =>
       \A a \in DOMAIN task[Main].accountsToCheck :
         (/\ ~ret'[Main].onChain[a].exists
          /\ Row(a).rent_lamports >= minReclaimLamports
          /\ tracked_accounts'[a].status = "closed"
          /\ a \notin whitelist
          /\ a \notin blacklist)
           => reclaimDecision(tracked_accounts', whitelist, blacklist, a, Gone,
                              now + minDormancyDays * DayTicks, FALSE) = "submit"]_vars

\* ----------------------------------------------------------------- C31
\* this step is the balance re-read of a reclaimSingleAccount call finding
\* nothing to reclaim
NothingToReclaim ==
  /\ task[Main].op = "reclaim"
  /\ task[Main].pc = "pre_read"
  /\ ~task[Main].batch.active
  /\ ret'[Main].op = "reclaimSingleAccount"
  /\ "error" \in DOMAIN ret'[Main]
  /\ ret'[Main].error = "no_lamports"

\* C31: when the balance re-read before acting is zero, reclaimSingleAccount
\* fails with the nothing-to-reclaim error, submits nothing, and appends a
\* failed row for the address to the reclaim log.
C31_ZeroBalanceAppendsFailedRow ==
  [][NothingToReclaim =>
       /\ ~ret'[Main].success
       /\ task'[Main] = Idle
       /\ \E r \in {reclaim_transactions'[i] : i \in DOMAIN reclaim_transactions'} :
            /\ Appends(r)
            /\ r.account_pubkey = task[Main].addr
            /\ ~r.success]_vars

\* ----------------------------------------------------------------- C32
\* C32: in live mode an eligible account is reclaimed by a submission chosen
\* by its kind: whenever a live reclaim is about to act, every read that
\* shows the account existing and owned by the token program or by the
\* system program leads to a submission for it.
C32_TokenAndSystemAccountsAreSubmitted ==
  (/\ task[Main].op = "reclaim"
   /\ task[Main].pc = "close_read"
   /\ ~task[Main].dryRun)
    => \A info \in Infos :
         (info.exists /\ info.owner \in {"system", "token"})
           => closeAccountAndReclaimRent(info, FALSE) = "submit"

PassEnds ==
  /\ task[Main].op = "checkAllAccounts"
  /\ ret'[Main].op = "checkAllAccounts"

\* C34: in a reconciliation pass a read failure affecting one account is
\* recorded in the error list and does not abort the pass: the pass leaves
\* at most one polled account unevaluated per recorded error.
C34_ReadFailureDoesNotAbortPass ==
  [][PassEnds =>
       Cardinality(DOMAIN task[Main].accountsToCheck) - ret'[Main].totalChecked
         <= ret'[Main].errors]_vars

\* ----------------------------------------------------------------- C35
\* this step resolves a fetch of a discovery run: of a transaction or of a
\* candidate account
FetchResolves ==
  /\ task[Main].op = "discover"
  /\ task[Main].pc \in {"tx", "account"}
  /\ task'[Main] # task[Main]

EvaluationReturns(t) ==
  /\ task[t].op = "checkEligibility"
  /\ ret'[t].op = "checkEligibility"
  /\ "seen" \in DOMAIN ret'[t]

\* C36: the only State Store mutation checkEligibility can perform is the
\* correction of the evaluated account, status Closed with closedAt = now
\* and a warning, made exactly when the account is gone on-chain and its
\* stored status was not Closed; every other row, the lists and the log are
\* unchanged by every step of an evaluation.  While evaluations for
\* different addresses interleave, the row an evaluation judges is still the
\* stored one and its result is the policy's verdict on that row.
C36_EvaluationOnlyCorrectsItsAccount ==
  [][\A t \in Tasks :
       /\ (\/ (task[t].op = "checkEligibility" /\ task'[t] # task[t])
           \/ (task[t] = Idle /\ task'[t].op = "checkEligibility")
           \/ (task[t] = Idle /\ ret'[t].op = "checkEligibility"))
            => /\ UNCHANGED <<reclaim_transactions, whitelist, blacklist>>
               /\ \A b \in Addrs :
                    tracked_accounts'[b] # tracked_accounts[b]
                      => /\ EvaluationReturns(t)
                         /\ b = task[t].addr
       /\ EvaluationReturns(t)
            => LET a == task[t].addr
                   corrects == ~ret'[t].seen.exists /\ Row(a).status # "closed"
               IN /\ task[t].account = Row(a)
                  /\ ret'[t] = EligibilityRetSeen(a,
                       EligibilityOnChain(Row(a), ret'[t].seen, now), ret'[t].seen)
                  /\ tracked_accounts'[a] =
                       IF corrects
                       THEN [Row(a) EXCEPT !.status = "closed", !.closed_at = now]
                       ELSE Row(a)
                  /\ corrects
                       <=> \E i \in DOMAIN ret'[t].warnings :
                             ret'[t].warnings[i] = "status_updated"]_vars

\* an evaluation has just corrected its account to Closed while an
\* evaluation for the other address is in flight
C36_Witness ==
  \E t, u \in Tasks :
    /\ ret[t].op = "checkEligibility"
    /\ "seen" \in DOMAIN ret[t]
    /\ ~ret[t].seen.exists
    /\ \E i \in DOMAIN ret[t].warnings : ret[t].warnings[i] = "status_updated"
    /\ Row(ret[t].addr).status = "closed"
    /\ Row(ret[t].addr).closed_at = now
    /\ task[u].op = "checkEligibility"
    /\ task[u].addr # ret[t].addr

\* ----------------------------------------------------------------- C37
\* C37: discovery never overwrites the stored record of an address that is
\* already tracked, also when the address became tracked while the run was
\* awaiting: a step of a discovery run leaves every row that exists unchanged.
C37_DiscoveryNeverOverwritesTrackedRow ==
  [][(task[Main].op = "discover" /\ task'[Main] # task[Main])
       => \A a \in Addrs :
            Tracked(a) => tracked_accounts'[a] = tracked_accounts[a]]_vars

\* ----------------------------------------------------------------- C38
\* this step starts the turn of an address in the batch of task Main: the
\* loop calls reclaimSingleAccount for it and its eligibility read is awaited
TurnStarts ==
  /\ task'[Main].op = "reclaim"
  /\ task'[Main].pc = "elig_read"
  /\ task'[Main].batch.active
  /\ task'[Main] # task[Main]

\* C38: an address that was added to the allow-list or the deny-list, or
\* whose status became Reclaimed, after the batch computed its eligible set
\* and before its turn gets no ledger submission from the batch: the batch
\* starts the ledger part of a turn only for an address that is then on
\* neither list and not Reclaimed, and it submits only within such a turn.
C38_BatchReevaluatesAtEachTurn ==
  [][/\ TurnStarts
          => LET a == task'[Main].addr IN
               /\ a \notin whitelist
               /\ a \notin blacklist
               /\ Row(a).status # "reclaimed"
     /\ (task'[Main].op = "reclaim" /\ task'[Main].pc = "submit"
         /\ task'[Main] # task[Main])
          => /\ task[Main].op = "reclaim"
             /\ task[Main].pc = "close_read"
             /\ task[Main].addr = task'[Main].addr]_vars

\* the batch has rejected, at its turn, an address of its eligible set that
\* was listed or reclaimed after the set was computed
C38_Witness ==
  /\ task[Main].op = "reclaim"
  /\ task[Main].batch.active
  /\ ~task[Main].dryRun
  /\ \E i \in DOMAIN task[Main].batch.sum.results :
       task[Main].batch.sum.results[i].error
         \in {"whitelisted", "blacklisted", "already_reclaimed"}

\* ----------------------------------------------------------------- C39
\* C39: after any sequence of start() and stop() calls, isRunning is true
\* exactly when one monitor task and one discovery task are scheduled, and
\* false exactly when none is: start() while running schedules nothing new,
\* stop() while stopped changes nothing, and stop() followed by start()
\* leaves exactly one task of each kind, the one the service holds.
C39_RunningIffOneTaskOfEachKind ==
  /\ service.isRunning
       => /\ service.scheduledMonitor = 1
          /\ service.scheduledDiscovery = 1
          /\ service.monitorTask
          /\ service.discoveryTask
  /\ ~service.isRunning
       => /\ service.scheduledMonitor = 0
          /\ service.scheduledDiscovery = 0
          /\ ~service.monitorTask
          /\ ~service.discoveryTask

\* the service runs with one task of each kind while both of its cycles,
\* the initial one and one of the schedule, are in flight
C39_Witness ==
  /\ service.isRunning
  /\ service.scheduledMonitor = 1
  /\ service.scheduledDiscovery = 1
  /\ \A t \in Tasks : task[t] # Idle

====
